---- MODULE Spec2Model ----
(***************************************************************************)
(* A model of the scoop shim executable: the sidecar resolver (GetShimInfo *)
(* with its placeholder expansion), the launcher (MakeProcess) and the     *)
(* top-level flow (wmain), for the two variants the repository holds:      *)
(* src/unnamed/part_000 (the C++20 rewrite) and src/shim.cpp.              *)
(*                                                                         *)
(* Text is a sequence of one-character strings.  Positions are 0-based as  *)
(* in the source; npos is -1.  An optional value is a sequence of length 0 *)
(* (empty) or 1 (holding the value).                                       *)
(***************************************************************************)
EXTENDS Integers, Sequences, FiniteSets, TLC

VARIABLES
    build,          \* which variant runs: "part_000" or "shim_cpp"
    env,            \* the shim's process environment block: name -> value
    inherited,      \* the environment block the shim was started with
    \* --- the shim process and what surrounds it
    pc,             \* the shim's position in wmain ("off": the shim is not run)
    self,           \* the shim's own module path
    shimFile,       \* the sidecar file: optional sequence of lines
    rawCmd,         \* the raw command line the OS handed to the shim
    info,           \* ShimInfo: path, args (optional), envVars
    isWindowsApp,   \* the target was classified as a windowed application
    hasConsole,     \* the shim is still attached to its console
    jobHandle,      \* "null", "open" or "closed"
    killOnClose,    \* the job carries JOB_OBJECT_LIMIT_KILL_ON_JOB_CLOSE
    processHandle,  \* "null", "open" or "closed"
    threadHandle,   \* "null", "open" or "closed"
    launch,         \* how the child came to be: "none", "direct", "elevated", "failed"
    createError,    \* CreateProcessW's outcome: "none", "ok", "elevation", "other"
    fallbackTried,  \* ShellExecuteExW was called
    child,          \* "none", "running", "exited" or "killed"
    childCode,      \* the exit code the child reported (-1: none yet)
    childCmd,       \* the command line the child was created with
    childEnv,       \* the environment the child inherited
    childInJob,     \* the child is assigned to the job object
    jobFailed,      \* some job-object call was made and failed
    putCalls,       \* the number of _wputenv_s calls made
    handler,        \* CtrlHandler is installed
    putFailed,      \* the indices of info.envVars whose _wputenv_s call failed
    handlerFailed,  \* SetConsoleCtrlHandler was called and failed
    signal,         \* the last control signal delivered to the shim ("none": none yet)
    exitCode,       \* the shim's exit code (-1: still running)
    \* --- the expansion applied on its own
    text,           \* the text handed to the expansion
    out1,           \* the result of one pass
    out2,           \* the result of a second pass over out1
    stage           \* "off", "input", "once", "twice"

flowVars == <<pc, self, shimFile, rawCmd, info, isWindowsApp, hasConsole, jobHandle,
              killOnClose, processHandle, threadHandle, launch, createError,
              fallbackTried, child,
              childCode, childCmd, childEnv, childInJob, jobFailed, putCalls, handler,
              putFailed, handlerFailed, signal, exitCode>>

expandVars == <<text, out1, out2, stage>>

vars == <<build, env, inherited, flowVars, expandVars>>

-----------------------------------------------------------------------------
(* Bounds *)

MaxText == 6
MaxRaw == 5
MaxExit == 2
MaxValue == 5
MaxPieces == 4
MaxVarLines == 2

-----------------------------------------------------------------------------
(* Text helpers: std::wstring / std::wstring_view operations *)

npos == -1

SetMin(S) == CHOOSE m \in S : \A k \in S : m <= k

\* basic_string::find(ch, from): first position >= from holding ch
FindChar(s, ch, from) ==
    LET hits == {i \in 0..(Len(s) - 1) : i >= from /\ s[i + 1] = ch}
    IN  IF hits = {} THEN npos ELSE SetMin(hits)

\* basic_string::find(pat, from): first position >= from where pat starts
FindStr(s, pat, from) ==
    LET hits == {i \in 0..(Len(s) - Len(pat)) :
                    i >= from /\ SubSeq(s, i + 1, i + Len(pat)) = pat}
    IN  IF hits = {} THEN npos ELSE SetMin(hits)

\* basic_string::substr(pos, n), n clipped to the end
Substr(s, pos, n) ==
    LET last == IF pos + n > Len(s) THEN Len(s) ELSE pos + n
    IN  SubSeq(s, pos + 1, last)

\* basic_string::replace(pos, n, r)
Replace(s, pos, n, r) ==
    SubSeq(s, 1, pos) \o r \o SubSeq(s, pos + n + 1, Len(s))

Builds == {"part_000", "shim_cpp"}

c_envDelim == "%"

-----------------------------------------------------------------------------
(* ExpandEnvVars (part_000): %NAME% expansion against the environment *)

\* line 188 gone wrong: the scan restarts at the replacement itself
ResumeRescan(startPos, endPos, replacement) == startPos

\* line 188 gone wrong: the scan resumes at the old closing delimiter's position
ResumeAtOldEnd(startPos, endPos, replacement) == endPos + 1

\* where the scan resumes after a replacement (searchPos = startPos + replacement.size())
ResumeAfterReplace(startPos, endPos, replacement) == startPos + Len(replacement)

RECURSIVE ExpandLoop(_, _, _)
ExpandLoop(result, searchPos, e) ==
    IF ~(searchPos < Len(result)) THEN result
    ELSE
      LET startPos == FindChar(result, c_envDelim, searchPos) IN
      IF startPos = npos \/ startPos + 1 >= Len(result) THEN result
      ELSE
        LET endPos == FindChar(result, c_envDelim, startPos + 1) IN
        IF endPos = npos THEN result
        ELSE
          LET varName == Substr(result, startPos + 1, endPos - startPos - 1) IN
          IF varName = <<>>
          THEN ExpandLoop(result, endPos + 1, e)              \* %% -> skip
          ELSE IF varName \in DOMAIN e                         \* _wdupenv_s found it
          THEN LET replacement == e[varName] IN
               ExpandLoop(Replace(result, startPos, endPos - startPos + 1, replacement),
                          ResumeAfterReplace(startPos, endPos, replacement), e)
          ELSE ExpandLoop(result, endPos + 1, e)               \* not found: left as-is
ExpandEnvVars(input, e) == ExpandLoop(input, 0, e)

-----------------------------------------------------------------------------
(* NormalizeVariable (shim.cpp): the older expansion *)

GetVariableValue(name, e) == IF name \in DOMAIN e THEN e[name] ELSE <<>>

RECURSIVE NormalizeLoop(_, _, _)
NormalizeLoop(str, searchPos, e) ==
    IF ~(searchPos < Len(str)) THEN str
    ELSE
      LET startPos == FindChar(str, c_envDelim, searchPos) IN
      IF startPos = npos \/ startPos + 1 >= Len(str) THEN str
      ELSE
        LET endPos == FindChar(str, c_envDelim, startPos + 1) IN
        IF endPos = npos THEN str
        ELSE
          LET name  == Substr(str, startPos + 1, endPos - startPos - 1)
              value == GetVariableValue(name, e)
          IN  NormalizeLoop(Replace(str, startPos, endPos + 1 - startPos, value),
                            startPos + Len(value), e)
NormalizeVariable(var, e) == NormalizeLoop(var, 0, e)

\* the expansion a variant applies to a sidecar value
Expand(b, t, e) ==
    IF b = "part_000" THEN ExpandEnvVars(t, e) ELSE NormalizeVariable(t, e)

-----------------------------------------------------------------------------
(* The environments and texts the expansion is exercised on *)

TextChars == {"%", "A", "B", "x"}

\* every text of at most n characters drawn from chars
RECURSIVE StringsUpTo(_, _)
StringsUpTo(chars, n) ==
    IF n = 0 THEN {<<>>}
    ELSE LET shorter == StringsUpTo(chars, n - 1)
         IN  shorter \cup {Append(t, c) : t \in {u \in shorter : Len(u) = n - 1}, c \in chars}

Texts == StringsUpTo(TextChars, MaxText)

\* A is set to a plain value, to nothing, to a lone delimiter, or to a whole
\* reference to B; x is never set
EnvPlain   == (<<"A">> :> <<"v">>)
EnvEmpty   == (<<"A">> :> <<>>) @@ (<<"B">> :> <<"w">>)
EnvDelim   == (<<"A">> :> <<"%">>)
EnvRef     == (<<"A">> :> <<"%", "B", "%">>) @@ (<<"B">> :> <<"w">>)
EnvRefOpen == (<<"A">> :> <<"%", "B">>) @@ (<<"B">> :> <<"w">>)

Envs == {EnvPlain, EnvEmpty, EnvDelim, EnvRef, EnvRefOpen}

\* an optional value: empty, or holding v
Nothing == <<>>
Some(v) == <<v>>
HasValue(o) == o # <<>>
ValueOf(o) == o[1]

EmptyInfo == [path |-> Nothing, args |-> Nothing, envVars |-> <<>>]

\* the shim process is not run
FlowOff ==
    /\ pc = "off"
    /\ self = <<>> /\ shimFile = Nothing /\ rawCmd = <<>>
    /\ info = EmptyInfo
    /\ isWindowsApp = FALSE /\ hasConsole = TRUE
    /\ jobHandle = "null" /\ killOnClose = FALSE
    /\ processHandle = "null" /\ threadHandle = "null"
    /\ launch = "none" /\ createError = "none" /\ fallbackTried = FALSE
    /\ child = "none" /\ childCode = -1 /\ childCmd = <<>> /\ childEnv = <<>>
    /\ childInJob = FALSE /\ jobFailed = FALSE /\ putCalls = 0
    /\ handler = FALSE /\ exitCode = -1
    /\ putFailed = {} /\ handlerFailed = FALSE /\ signal = "none"

InitExpand ==
    /\ FlowOff
    /\ build \in Builds
    /\ env \in Envs
    /\ inherited = env
    /\ text \in Texts
    /\ out1 = <<>>
    /\ out2 = <<>>
    /\ stage = "input"

\* one pass of the variant's expansion over the text
ExpandOnce ==
    /\ stage = "input"
    /\ out1' = Expand(build, text, env)
    /\ stage' = "once"
    /\ UNCHANGED <<build, env, inherited, text, out2, flowVars>>

\* a second pass over the result of the first
ExpandTwice ==
    /\ stage = "once"
    /\ out2' = Expand(build, out1, env)
    /\ stage' = "twice"
    /\ UNCHANGED <<build, env, inherited, text, out1, flowVars>>

NextExpand == ExpandOnce \/ ExpandTwice

SpecExpand == InitExpand /\ [][NextExpand]_vars

-----------------------------------------------------------------------------
(* Properties of the expansion *)

CountDelims(s) == Cardinality({i \in 1..Len(s) : s[i] = c_envDelim})

\* text[i..j] is a placeholder the left-to-right scan pairs up: % name %, the
\* name free of %, with an even number of % before it
IsPairedSpan(t, i, j) ==
    /\ 1 <= i /\ i < j /\ j <= Len(t)
    /\ t[i] = c_envDelim /\ t[j] = c_envDelim
    /\ \A k \in (i + 1)..(j - 1) : t[k] # c_envDelim
    /\ CountDelims(SubSeq(t, 1, i - 1)) % 2 = 0

SpanName(t, i, j) == SubSeq(t, i + 1, j - 1)

NoDelimInValues(e) == \A n \in DOMAIN e : CountDelims(e[n]) = 0

\* C8: every placeholder the expansion cannot resolve (its name is not in the
\* environment, or it is the empty-name %%) appears unchanged in the result:
\* the result is the expansion of what precedes it, the placeholder itself,
\* then the expansion of what follows it.
C8_UnresolvedPlaceholderKept ==
    stage \in {"once", "twice"} =>
        \A i \in 1..Len(text) : \A j \in (i + 1)..Len(text) :
            (/\ IsPairedSpan(text, i, j)
             /\ SpanName(text, i, j) \notin DOMAIN env)
            => out1 = Expand(build, SubSeq(text, 1, i - 1), env)
                        \o SubSeq(text, i, j)
                        \o Expand(build, SubSeq(text, j + 1, Len(text)), env)

\* C8 holds of ExpandEnvVars: what fails it is NormalizeVariable alone.
UnresolvedKeptByExpandEnvVars ==
    build = "part_000" => C8_UnresolvedPlaceholderKept

\* C9: when no value of the environment holds a %, a second expansion pass
\* changes nothing: Expand(Expand(t)) = Expand(t).
C9_ExpandIdempotent ==
    (stage = "twice" /\ NoDelimInValues(env)) => out2 = out1

C9_Witness ==
    /\ stage = "twice"
    /\ build = "part_000"
    /\ env = EnvPlain
    /\ text = <<"%", "A", "%", "%", "x", "%">>
    /\ out1 = <<"v", "%", "x", "%">>
    /\ out2 = out1

\* C10: the expansion is single-pass: where %NAME% is replaced, the value
\* stands in the result verbatim between the expansion of what precedes the
\* placeholder and the expansion of what follows it, so no character of the
\* value opens or closes a later placeholder.
C10_SinglePass ==
    stage \in {"once", "twice"} =>
        \A i \in 1..Len(text) : \A j \in (i + 1)..Len(text) :
            (/\ IsPairedSpan(text, i, j)
             /\ SpanName(text, i, j) \in DOMAIN env)
            => out1 = Expand(build, SubSeq(text, 1, i - 1), env)
                        \o env[SpanName(text, i, j)]
                        \o Expand(build, SubSeq(text, j + 1, Len(text)), env)

\* the value of A is itself a reference to B, and a further %B% follows
C10_Witness ==
    /\ stage = "once"
    /\ build = "part_000"
    /\ env = EnvRef
    /\ text = <<"%", "A", "%", "%", "B", "%">>
    /\ out1 = <<"%", "B", "%", "w">>

-----------------------------------------------------------------------------
(* The resolver: GetShimInfo *)

MAX_PATH == 260

c_quote == "\""
c_dirPlaceholder == <<"%", "~", "d", "p", "0">>
c_pathPrefix == <<"p", "a", "t", "h">>
c_argsPrefix == <<"a", "r", "g", "s">>
c_separator == <<" ", "=", " ">>

SetMax(S) == CHOOSE m \in S : \A k \in S : m >= k

\* basic_string_view::find_last_of(L"\\/")
FindLastSlash(s) ==
    LET hits == {i \in 0..(Len(s) - 1) : s[i + 1] \in {"\\", "/"}}
    IN  IF hits = {} THEN npos ELSE SetMax(hits)

GetDirectory(exe) ==
    LET pos == FindLastSlash(exe)
    IN  IF pos # npos THEN Substr(exe, 0, pos) ELSE exe

TrimNewline(sv) ==
    LET a == IF sv # <<>> /\ sv[Len(sv)] = "\n" THEN SubSeq(sv, 1, Len(sv) - 1) ELSE sv
    IN  IF a # <<>> /\ a[Len(a)] = "\r" THEN SubSeq(a, 1, Len(a) - 1) ELSE a

\* the token replaced wherever it occurs
RECURSIVE NormalizeArgsEverywhere(_, _)
NormalizeArgsEverywhere(args, curDir) ==
    LET pos == FindStr(args, c_dirPlaceholder, 0)
    IN  IF pos = npos THEN args
        ELSE SubSeq(args, 1, pos) \o curDir
               \o NormalizeArgsEverywhere(SubSeq(args, pos + Len(c_dirPlaceholder) + 1,
                                                  Len(args)), curDir)

NormalizeArgsInPlace(args, curDir) ==
    LET pos == FindStr(args, c_dirPlaceholder, 0)
    IN  IF pos # npos THEN Replace(args, pos, Len(c_dirPlaceholder), curDir) ELSE args

\* GetModuleFileNameW(nullptr, filename, MAX_PATH): the length copied, or the
\* buffer size when the path does not fit
GetModuleFileNameSize(selfPath) ==
    IF Len(selfPath) >= MAX_PATH THEN MAX_PATH ELSE Len(selfPath)

\* the buffer after "exe" is overwritten by "shim"
ShimFileName(selfPath) ==
    SubSeq(selfPath, 1, Len(selfPath) - 3) \o <<"s", "h", "i", "m">>

\* the path value as stored: quoted when it holds a space and is not quoted yet
QuotePath(expandedPath) ==
    IF /\ FindChar(expandedPath, " ", 0) # npos
       /\ (expandedPath = <<>> \/ expandedPath[1] # c_quote)
    THEN <<c_quote>> \o expandedPath \o <<c_quote>>
    ELSE expandedPath

\* the quoting decided on the raw value, the expansion applied after it
ResolvePathQuoteRaw(value, e) ==
    IF /\ FindChar(value, " ", 0) # npos
       /\ (value = <<>> \/ value[1] # c_quote)
    THEN <<c_quote>> \o ExpandEnvVars(value, e) \o <<c_quote>>
    ELSE ExpandEnvVars(value, e)

\* the path branch of the line loop: expand, then quote
ResolvePath(value, e) == QuotePath(ExpandEnvVars(value, e))

\* the args value run through the environment expansion as well
ResolveArgsExpanded(value, curDir, e) ==
    ExpandEnvVars(NormalizeArgsInPlace(value, curDir), e)

\* the args branch of the line loop: the directory token only, the
\* environment e is not consulted
ResolveArgs(value, curDir, e) == NormalizeArgsInPlace(value, curDir)

\* the body of the line loop, for one line as fgetws returned it
ParseLine(inf, rawLine, curDir, e) ==
    LET line   == TrimNewline(rawLine)
        sepPos == FindStr(line, c_separator, 0)
    IN  IF sepPos = npos THEN inf
        ELSE
          LET name  == Substr(line, 0, sepPos)
              value == Substr(line, sepPos + Len(c_separator), Len(line))
          IN  IF name = <<>> THEN inf
              ELSE IF name = c_pathPrefix
              THEN [inf EXCEPT !.path = Some(ResolvePath(value, e))]
              ELSE IF name = c_argsPrefix
              THEN [inf EXCEPT !.args = Some(ResolveArgs(value, curDir, e))]
              ELSE [inf EXCEPT !.envVars = Append(@, <<name, ExpandEnvVars(value, e)>>)]

\* every variable line applied to the environment as soon as it is parsed, so
\* that the lines after it are expanded against it
RECURSIVE ParseLinesApplying(_, _, _, _)
ParseLinesApplying(inf, lines, curDir, e) ==
    IF lines = <<>> THEN inf
    ELSE LET parsed == ParseLine(inf, Head(lines), curDir, e)
             last   == Len(parsed.envVars)
         IN  ParseLinesApplying(parsed, Tail(lines), curDir,
                                IF last > Len(inf.envVars)
                                THEN [n \in DOMAIN e \cup {parsed.envVars[last][1]} |->
                                        IF n = parsed.envVars[last][1]
                                        THEN parsed.envVars[last][2] ELSE e[n]]
                                ELSE e)

RECURSIVE ParseLines(_, _, _, _)
ParseLines(inf, lines, curDir, e) ==
    IF lines = <<>> THEN inf
    ELSE ParseLines(ParseLine(inf, Head(lines), curDir, e), Tail(lines), curDir, e)

GetShimInfo(selfPath, file, e) ==
    LET filenameSize == GetModuleFileNameSize(selfPath) IN
    IF filenameSize >= MAX_PATH THEN EmptyInfo
    ELSE IF ~HasValue(file) THEN EmptyInfo
    ELSE ParseLines(EmptyInfo, ValueOf(file),
                    GetDirectory(SubSeq(ShimFileName(selfPath), 1, filenameSize)), e)

-----------------------------------------------------------------------------
(* The resolver of src/shim.cpp *)

\* substr(0, find_last_of(...)): the whole text when there is no separator
GetDirectory_shimcpp(exe) ==
    LET pos == FindLastSlash(exe)
    IN  IF pos # npos THEN Substr(exe, 0, pos) ELSE exe

NormalizeArgs_shimcpp(args, curDir) ==
    IF ~HasValue(args) THEN args
    ELSE LET pos == FindStr(ValueOf(args), c_dirPlaceholder, 0)
         IN  IF pos # npos
             THEN Some(Replace(ValueOf(args), pos, Len(c_dirPlaceholder), curDir))
             ELSE args

ParseLine_shimcpp(inf, line, e) ==
    LET pos == FindStr(line, c_separator, 0)
    IN  IF pos = npos THEN inf
        ELSE
          LET name  == Substr(line, 0, pos)
              value == Substr(line, pos + 3,
                              Len(line) - pos - 3 - (IF line[Len(line)] = "\n" THEN 1 ELSE 0))
          IN  IF name = c_pathPrefix
              THEN IF FindChar(value, " ", 0) # npos /\ value[1] # c_quote
                   THEN [inf EXCEPT !.path = Some(<<c_quote>> \o value \o <<c_quote>>)]
                   ELSE [inf EXCEPT !.path = Some(value)]
              ELSE IF name = c_argsPrefix
              THEN [inf EXCEPT !.args = Some(value)]
              ELSE IF name # <<>>
              THEN [inf EXCEPT !.envVars = Append(@, <<name, NormalizeVariable(value, e)>>)]
              ELSE inf

RECURSIVE ParseLines_shimcpp(_, _, _)
ParseLines_shimcpp(inf, lines, e) ==
    IF lines = <<>> THEN inf
    ELSE ParseLines_shimcpp(ParseLine_shimcpp(inf, Head(lines), e), Tail(lines), e)

GetShimInfo_shimcpp(selfPath, file, e) ==
    LET filenameSize == GetModuleFileNameSize(selfPath) IN
    IF filenameSize >= MAX_PATH THEN EmptyInfo
    ELSE IF ~HasValue(file) THEN EmptyInfo
    ELSE LET parsed == ParseLines_shimcpp(EmptyInfo, ValueOf(file), e)
         IN  [parsed EXCEPT
                !.args = NormalizeArgs_shimcpp(parsed.args,
                                               GetDirectory_shimcpp(ShimFileName(selfPath)))]

\* the resolver of the variant that runs
ResolveConfig(b, selfPath, file, e) ==
    IF b = "part_000" THEN GetShimInfo(selfPath, file, e)
    ELSE GetShimInfo_shimcpp(selfPath, file, e)

-----------------------------------------------------------------------------
(* The invocation tail: the raw command line past the program name *)

\* The C runtime's scan of the program name (argv[0]): a quote toggles quoted
\* mode and is dropped, a space outside quotes ends the name.  The result is
\* the number of characters of raw the name takes up.
RECURSIVE ProgramNameEnd(_, _, _)
ProgramNameEnd(raw, i, inQuotes) ==
    IF i > Len(raw) THEN Len(raw)
    ELSE IF raw[i] = c_quote THEN ProgramNameEnd(raw, i + 1, ~inQuotes)
    ELSE IF ~inQuotes /\ raw[i] = " " THEN i - 1
    ELSE ProgramNameEnd(raw, i + 1, inQuotes)

IsNotQuote(c) == c # c_quote

\* argv[0] as the C runtime hands it to wmain
Argv0(raw) == SelectSeq(SubSeq(raw, 1, ProgramNameEnd(raw, 1, FALSE)), IsNotQuote)

\* the offset wmain reads the tail from: cmd + argv0Len (+ 2 when cmd[0] is a quote)
TailOffset(raw) ==
    LET argv0Len == Len(Argv0(raw))
    IN  IF raw # <<>> /\ raw[1] = c_quote THEN argv0Len + 2 ELSE argv0Len

\* What lies past the terminator of the command line when the offset overshoots it
Junk == {<<>>, <<"?">>}

\* the texts info.args->append(cmd + offset) can append
AppendedTails(raw) ==
    IF TailOffset(raw) <= Len(raw)
    THEN {SubSeq(raw, TailOffset(raw) + 1, Len(raw))}
    ELSE Junk

-----------------------------------------------------------------------------
(* The launcher and the top-level flow *)

ExitCodes == 0..MaxExit

\* a variable already set keeps its value
PutEnvKeepFirst(e, name, value) ==
    IF name \in DOMAIN e THEN e
    ELSE [n \in DOMAIN e \cup {name} |-> IF n = name THEN value ELSE e[n]]

\* _wputenv_s(name, value): an empty value removes the variable
PutEnv(e, name, value) ==
    IF value = <<>>
    THEN [n \in DOMAIN e \ {name} |-> e[n]]
    ELSE [n \in DOMAIN e \cup {name} |-> IF n = name THEN value ELSE e[n]]

\* the loop over info.envVars; the calls whose index is in failing fail
RECURSIVE ApplyEnvVars(_, _, _, _)
ApplyEnvVars(e, envVars, k, failing) ==
    IF k > Len(envVars) THEN e
    ELSE ApplyEnvVars(IF k \in failing THEN e ELSE PutEnv(e, envVars[k][1], envVars[k][2]),
                      envVars, k + 1, failing)

\* cmd = path + L' ' + args
BuildCommandLine(path, args) == path \o <<" ">> \o args

ArgsOf(inf) == IF HasValue(inf.args) THEN ValueOf(inf.args) ELSE <<>>

Closed(h) == IF h = "open" THEN "closed" ELSE h

\* the shim process ends (returns from wmain, or is terminated): the OS closes
\* its handles, and closing the last handle of a kill-on-close job ends the
\* processes assigned to it
ProcessEnds ==
    /\ jobHandle' = Closed(jobHandle)
    /\ processHandle' = Closed(processHandle)
    /\ threadHandle' = Closed(threadHandle)
    /\ child' = IF child = "running" /\ childInJob /\ killOnClose THEN "killed" ELSE child

\* return code from wmain
Return(code) ==
    /\ pc' = "done"
    /\ exitCode' = code
    /\ ProcessEnds

inputs == <<build, inherited, self, shimFile, rawCmd, expandVars>>

\* the check of info.path left out
ReadShimFileUnchecked ==
    /\ pc = "start"
    /\ LET got == ResolveConfig(build, self, shimFile, env)
       IN  info' = [got EXCEPT !.args = Some(ArgsOf(got))]
    /\ pc' = "tail"
    /\ UNCHANGED <<inputs, putFailed, handlerFailed, signal, env, isWindowsApp, hasConsole, jobHandle, killOnClose,
                   processHandle, threadHandle, launch, createError, fallbackTried, child,
                   childCode, childCmd, childEnv, childInJob, jobFailed, putCalls, handler,
                   exitCode>>

\* wmain: GetShimInfo, the check of info.path, the default for info.args
ReadShimFile ==
    /\ pc = "start"
    /\ LET got == ResolveConfig(build, self, shimFile, env) IN
       IF ~HasValue(got.path)
       THEN /\ info' = got
            /\ Return(1)
       ELSE /\ info' = [got EXCEPT !.args = Some(ArgsOf(got))]
            /\ pc' = "tail"
            /\ UNCHANGED <<exitCode, jobHandle, processHandle, threadHandle, child>>
    /\ UNCHANGED <<inputs, putFailed, handlerFailed, signal, env, isWindowsApp, hasConsole, killOnClose, launch, createError,
                   fallbackTried, childCode, childCmd, childEnv, childInJob, jobFailed,
                   putCalls, handler>>

\* wmain: append the command line arguments
AppendTail ==
    /\ pc = "tail"
    /\ \E tail \in AppendedTails(rawCmd) :
          info' = [info EXCEPT !.args = Some(ValueOf(info.args) \o tail)]
    /\ pc' = "exetype"
    /\ UNCHANGED <<inputs, putFailed, handlerFailed, signal, env, isWindowsApp, hasConsole, jobHandle, killOnClose,
                   processHandle, threadHandle, launch, createError, fallbackTried, child, childCode,
                   childCmd, childEnv, childInJob, jobFailed, putCalls, handler, exitCode>>

\* what SHGetFileInfoW(..., SHGFI_EXETYPE) can answer for the target
ExeTypes == {"failed", "console", "windows"}

\* wmain: classify the target, leave the console for a windowed one
DetermineExeType ==
    /\ pc = "exetype"
    /\ \E exeType \in ExeTypes :
          /\ isWindowsApp' = (exeType = "windows")
          /\ hasConsole' = IF exeType = "windows" THEN FALSE ELSE hasConsole
    /\ pc' = "job"
    /\ UNCHANGED <<inputs, putFailed, handlerFailed, signal, env, info, jobHandle, killOnClose, processHandle, threadHandle,
                   launch, createError, fallbackTried, child, childCode, childCmd, childEnv, childInJob,
                   jobFailed, putCalls, handler, exitCode>>

\* wmain: CreateJobObjectW and SetInformationJobObject, each of which can fail
CreateJob ==
    /\ pc = "job"
    /\ \E createFailed \in BOOLEAN : \E setFailed \in BOOLEAN :
          /\ jobHandle' = IF createFailed THEN "null" ELSE "open"
          /\ killOnClose' = (~createFailed /\ ~setFailed)
          /\ jobFailed' = (createFailed \/ setFailed)
    /\ pc' = "make_env"
    /\ UNCHANGED <<inputs, putFailed, handlerFailed, signal, env, info, isWindowsApp, hasConsole, processHandle, threadHandle,
                   launch, createError, fallbackTried, child, childCode, childCmd, childEnv, childInJob,
                   putCalls, handler, exitCode>>

\* MakeProcess: the guard on info.path and the _wputenv_s loop
SetEnvVars ==
    /\ pc = "make_env"
    /\ IF build = "part_000" /\ ~HasValue(info.path)
       THEN /\ pc' = "check"
            /\ UNCHANGED <<env, putCalls, putFailed>>
       ELSE /\ \E failing \in SUBSET (1..Len(info.envVars)) :
                  /\ env' = ApplyEnvVars(env, info.envVars, 1, failing)
                  /\ putFailed' = failing
            /\ putCalls' = putCalls + Len(info.envVars)
            /\ pc' = "make_create"
    /\ UNCHANGED <<inputs, handlerFailed, signal, info, isWindowsApp, hasConsole, jobHandle, killOnClose,
                   processHandle, threadHandle, launch, createError, fallbackTried, child, childCode,
                   childCmd, childEnv, childInJob, jobFailed, handler, exitCode>>

\* GetLastError() after a failed CreateProcessW
CreateErrors == {"elevation", "other"}

\* the fallback taken on every failure
AnyErrorNeedsElevation(err) == TRUE

\* err == ERROR_ELEVATION_REQUIRED
NeedsElevation(err) == err = "elevation"

\* MakeProcess: the command line, then CreateProcessW suspended and ResumeThread,
\* or the ShellExecuteExW fallback, or the return without a process
CreateChild ==
    /\ pc = "make_create"
    /\ \E createFailed \in BOOLEAN : \E err \in CreateErrors : \E shellFailed \in BOOLEAN :
          IF ~createFailed
          THEN /\ threadHandle' = "open"
               /\ processHandle' = "open"
               /\ launch' = "direct"
               /\ createError' = "ok"
               /\ child' = "running"
               /\ childCmd' = BuildCommandLine(ValueOf(info.path), ArgsOf(info))
               /\ childEnv' = env
               /\ pc' = "make_handler"
               /\ UNCHANGED fallbackTried
          ELSE IF NeedsElevation(err)
          THEN /\ createError' = err
               /\ fallbackTried' = TRUE
               /\ IF ~shellFailed
                  THEN /\ processHandle' = "open"
                       /\ launch' = "elevated"
                       /\ child' = "running"
                       /\ childCmd' = BuildCommandLine(ValueOf(info.path), ArgsOf(info))
                       /\ childEnv' = env
                       /\ pc' = "make_handler"
                       /\ UNCHANGED threadHandle
                  ELSE /\ launch' = "failed"
                       /\ pc' = "check"
                       /\ UNCHANGED <<processHandle, threadHandle, child, childCmd, childEnv>>
          ELSE /\ createError' = err
               /\ launch' = "failed"
               /\ pc' = "check"
               /\ UNCHANGED <<processHandle, threadHandle, child, childCmd, childEnv,
                              fallbackTried>>
    /\ UNCHANGED <<inputs, putFailed, handlerFailed, signal, env, info, isWindowsApp, hasConsole, jobHandle, killOnClose,
                   childCode, childInJob, jobFailed, putCalls, handler, exitCode>>

\* MakeProcess: SetConsoleCtrlHandler(CtrlHandler, TRUE), which can fail
InstallHandler ==
    /\ pc = "make_handler"
    /\ \E installFailed \in BOOLEAN :
          /\ handler' = ~installFailed
          /\ handlerFailed' = installFailed
    /\ pc' = "check"
    /\ UNCHANGED <<inputs, putFailed, signal, env, info, isWindowsApp, hasConsole, jobHandle, killOnClose,
                   processHandle, threadHandle, launch, createError, fallbackTried, child,
                   childCode, childCmd, childEnv, childInJob, jobFailed, putCalls, exitCode>>

\* wmain: what follows MakeProcess's return
CheckProcess ==
    /\ pc = "check"
    /\ IF build = "part_000"
       THEN IF processHandle = "null"
            THEN Return(1)
            ELSE /\ pc' = "assign"
                 /\ UNCHANGED <<exitCode, jobHandle, processHandle, threadHandle, child>>
       ELSE IF processHandle # "null" /\ ~isWindowsApp
            THEN /\ pc' = "assign"
                 /\ UNCHANGED <<exitCode, jobHandle, processHandle, threadHandle, child>>
            ELSE Return(IF processHandle # "null" THEN 0 ELSE 1)
    /\ UNCHANGED <<inputs, putFailed, handlerFailed, signal, env, info, isWindowsApp, hasConsole, killOnClose, launch,
                   createError, fallbackTried, childCode, childCmd, childEnv, childInJob,
                   jobFailed, putCalls, handler>>

\* a failed assignment taken as fatal: the shim returns 1
AssignJobOrFail ==
    /\ pc = "assign"
    /\ \E assignFailed \in BOOLEAN :
          LET assigned == jobHandle = "open" /\ ~assignFailed
          IN  /\ childInJob' = assigned
              /\ jobFailed' = (jobFailed \/ ~assigned)
              /\ IF assigned
                 THEN /\ pc' = "wait"
                      /\ UNCHANGED <<exitCode, jobHandle, processHandle, threadHandle, child>>
                 ELSE Return(1)
    /\ UNCHANGED <<inputs, putFailed, handlerFailed, signal, env, info, isWindowsApp,
                   hasConsole, killOnClose, launch, createError, fallbackTried,
                   childCode, childCmd, childEnv, putCalls, handler>>

\* wmain: AssignProcessToJobObject, which fails without a job and can fail with one
AssignJob ==
    /\ pc = "assign"
    /\ \E assignFailed \in BOOLEAN :
          LET assigned == jobHandle = "open" /\ ~assignFailed
          IN  /\ childInJob' = assigned
              /\ jobFailed' = (jobFailed \/ ~assigned)
    /\ pc' = "wait"
    /\ UNCHANGED <<inputs, putFailed, handlerFailed, signal, env, info, isWindowsApp, hasConsole, jobHandle, killOnClose,
                   processHandle, threadHandle, launch, createError, fallbackTried, child,
                   childCode, childCmd, childEnv, putCalls, handler, exitCode>>

\* the wait returning while the child still runs
WaitOverEarly(state) == TRUE

\* WaitForSingleObject(processHandle, INFINITE) returns once the child has ended
WaitOver(state) == state \in {"exited", "killed"}

\* the call left out: exitCode keeps the value it was initialised with
ExitCodeNotFetched(initial, reported) == initial

\* DWORD exitCode = initial; GetExitCodeProcess(processHandle, &exitCode)
GetExitCodeProcess(initial, reported) == reported

\* wmain: the wait, GetExitCodeProcess and the return of the child's code
WaitChild ==
    /\ pc = "wait"
    /\ WaitOver(child)
    /\ Return(GetExitCodeProcess(IF build = "part_000" THEN 1 ELSE 0, childCode))
    /\ UNCHANGED <<inputs, putFailed, handlerFailed, signal, env, info, isWindowsApp, hasConsole, killOnClose, launch,
                   createError, fallbackTried, childCode, childCmd, childEnv, childInJob,
                   jobFailed, putCalls, handler>>

\* the child exits on its own, with a code of its choosing
ChildExits ==
    /\ child = "running"
    /\ \E n \in ExitCodes : childCode' = n
    /\ child' = "exited"
    /\ UNCHANGED <<inputs, putFailed, handlerFailed, signal, env, pc, info, isWindowsApp, hasConsole, jobHandle, killOnClose,
                   processHandle, threadHandle, launch, createError, fallbackTried, childCmd,
                   childEnv, childInJob, jobFailed, putCalls, handler, exitCode>>

\* the shim process is terminated from outside, at any point of its run
ShimKilled ==
    /\ pc \notin {"off", "done", "killed", "ctrl_exit"}
    /\ pc' = "killed"
    /\ ProcessEnds
    /\ UNCHANGED <<inputs, putFailed, handlerFailed, signal, env, info, isWindowsApp, hasConsole, killOnClose, launch,
                   createError, fallbackTried, childCode, childCmd, childEnv, childInJob,
                   jobFailed, putCalls, handler, exitCode>>

\* the control signals a console delivers to the processes attached to it
CtrlTypes == {"CTRL_C_EVENT", "CTRL_BREAK_EVENT", "CTRL_CLOSE_EVENT",
              "CTRL_LOGOFF_EVENT", "CTRL_SHUTDOWN_EVENT"}

\* only the interrupt and the break reported handled
CtrlHandlerInterruptOnly(ctrlType) == ctrlType \in {"CTRL_C_EVENT", "CTRL_BREAK_EVENT"}

\* CtrlHandler of part_000: TRUE whatever the type
CtrlHandler(ctrlType) == TRUE

\* CtrlHandler of src/shim.cpp: TRUE for the five types, FALSE by default
CtrlHandler_shimcpp(ctrlType) ==
    IF ctrlType \in {"CTRL_C_EVENT", "CTRL_CLOSE_EVENT", "CTRL_LOGOFF_EVENT",
                     "CTRL_BREAK_EVENT", "CTRL_SHUTDOWN_EVENT"}
    THEN TRUE ELSE FALSE

\* the installed handler reports the signal handled
ReportsHandled(b, ctrlType) ==
    IF b = "part_000" THEN CtrlHandler(ctrlType) ELSE CtrlHandler_shimcpp(ctrlType)

\* A control signal is delivered to the shim while it runs attached to its
\* console.  With CtrlHandler installed and reporting it handled, the default
\* action is not taken and the shim runs on; otherwise the default handler
\* ends the process.
CtrlSignal ==
    /\ pc \notin {"off", "done", "killed", "ctrl_exit"}
    /\ hasConsole
    /\ \E ctrlType \in CtrlTypes :
          /\ signal' = ctrlType
          /\ IF handler /\ ReportsHandled(build, ctrlType)
             THEN UNCHANGED <<pc, jobHandle, processHandle, threadHandle, child>>
             ELSE /\ pc' = "ctrl_exit"
                  /\ ProcessEnds
    /\ UNCHANGED <<inputs, putFailed, handlerFailed, env, info, isWindowsApp, hasConsole,
                   killOnClose, launch, createError, fallbackTried, childCode, childCmd,
                   childEnv, childInJob, jobFailed, putCalls, handler, exitCode>>

ShimStep ==
    \/ ReadShimFile
    \/ AppendTail
    \/ DetermineExeType
    \/ CreateJob
    \/ SetEnvVars
    \/ CreateChild
    \/ InstallHandler
    \/ CheckProcess
    \/ AssignJob
    \/ WaitChild

Next == ShimStep \/ ChildExits \/ ShimKilled

-----------------------------------------------------------------------------
(* The runs of the shim *)

SelfShort == <<"d", "\\", "s", ".", "e", "x", "e">>
SelfLong  == [i \in 1..MAX_PATH |-> "a"]

SelfPaths == {SelfShort, SelfLong}

\* sidecar files: none to open; no path line; a path; a path and args; a path
\* with a space and two assignments of the same variable
FileNoPath   == << <<"a", "r", "g", "s", " ", "=", " ", "k", "\n">>,
                   <<"V", " ", "=", " ", "1">> >>
FilePath     == << <<"p", "a", "t", "h", " ", "=", " ", "t", "\n">> >>
FilePathArgs == << <<"p", "a", "t", "h", " ", "=", " ", "t", "\n">>,
                   <<"a", "r", "g", "s", " ", "=", " ", "k", "\n">> >>
FileVars     == << <<"p", "a", "t", "h", " ", "=", " ", "t", " ", "u", "\n">>,
                   <<"V", " ", "=", " ", "1", "\n">>,
                   <<"V", " ", "=", " ", "%", "A", "%", "\n">> >>

ShimFiles == {Nothing, Some(FileNoPath), Some(FilePath), Some(FilePathArgs), Some(FileVars)}

\* command lines: the name alone, with an argument, quoted with an argument
RawSamples == { <<"s">>, <<"s", " ", "x">>, <<c_quote, "s", c_quote, " ", "x">> }

ExpandOff == text = <<>> /\ out1 = <<>> /\ out2 = <<>> /\ stage = "off"

\* the shim starts: env is the block it inherited
InitFlowEnv(envs, selfs, files, raws) ==
    /\ build \in Builds
    /\ env \in envs
    /\ inherited = env
    /\ pc = "start"
    /\ self \in selfs
    /\ shimFile \in files
    /\ rawCmd \in raws
    /\ info = EmptyInfo
    /\ isWindowsApp = FALSE /\ hasConsole = TRUE
    /\ jobHandle = "null" /\ killOnClose = FALSE
    /\ processHandle = "null" /\ threadHandle = "null"
    /\ launch = "none" /\ createError = "none" /\ fallbackTried = FALSE
    /\ child = "none" /\ childCode = -1 /\ childCmd = <<>> /\ childEnv = <<>>
    /\ childInJob = FALSE /\ jobFailed = FALSE /\ putCalls = 0
    /\ handler = FALSE /\ exitCode = -1
    /\ putFailed = {} /\ handlerFailed = FALSE /\ signal = "none"
    /\ ExpandOff

InitFlow(selfs, files, raws) == InitFlowEnv({EnvPlain}, selfs, files, raws)

Init == InitFlow(SelfPaths, ShimFiles, RawSamples)

Spec == Init /\ [][Next]_vars

InitFair == InitFlow({SelfShort}, {Nothing, Some(FilePathArgs), Some(FileVars)},
                     {<<"s", " ", "x">>})

\* the shim's only thread keeps running while it has a step to take
FairSpec == InitFair /\ [][Next]_vars /\ WF_vars(ShimStep)

\* every command line of at most MaxRaw characters: name characters, quotes, spaces
RawChars == {"s", c_quote, " "}

RawCmds == StringsUpTo(RawChars, MaxRaw) \ {<<>>}

InitTail == InitFlow({SelfShort}, {Some(FilePathArgs)}, RawCmds)

SpecTail == InitTail /\ [][Next]_vars

\* the runs in which the console delivers control signals
NextCtrl == Next \/ CtrlSignal

InitCtrl == InitFlow({SelfShort}, {Nothing, Some(FilePathArgs)}, {<<"s">>})

SpecCtrl == InitCtrl /\ [][NextCtrl]_vars

\* the command lines in which every quote is closed
QuotesClosed(raw) == Cardinality({i \in 1..Len(raw) : raw[i] = c_quote}) % 2 = 0

InitClosedQuotes ==
    InitFlow({SelfShort}, {Some(FilePathArgs)}, {r \in RawCmds : QuotesClosed(r)})

SpecClosedQuotes == InitClosedQuotes /\ [][Next]_vars

ChildCreated == launch \in {"direct", "elevated"}

-----------------------------------------------------------------------------
(* The resolver run on its own: GetShimInfo over generated sidecar files *)

\* A holds a space, A starts with a quote and holds a space, a name with a space
EnvSpace      == (<<"A">> :> <<"a", " ", "b">>)
EnvQuoted     == (<<"A">> :> <<c_quote, "a", " ", "b">>)
EnvSpacedName == (<<"A", " ", "A">> :> <<"v">>)

ResolveEnvs == {EnvPlain, EnvSpace, EnvQuoted, EnvSpacedName}

SelfNested == <<"d", "/", "e", "\\", "s", ".", "e", "x", "e">>

\* every concatenation of at most n of the pieces
RECURSIVE ConcatsUpTo(_, _)
ConcatsUpTo(pieces, n) ==
    IF n = 0 THEN {<<>>}
    ELSE LET shorter == ConcatsUpTo(pieces, n - 1)
         IN  shorter \cup {t \o q : t \in shorter, q \in pieces}

\* a sidecar line as fgetws returns it
Line(name, value) == name \o c_separator \o value \o <<"\n">>

PathChars  == {"%", "A", " ", c_quote}
PathValues == StringsUpTo(PathChars, MaxValue)
PathFiles  == {<< Line(c_pathPrefix, v) >> : v \in PathValues}

ArgPieces  == {c_dirPlaceholder, <<"%">>, <<"A">>, <<" ">>}
ArgValues  == ConcatsUpTo(ArgPieces, MaxPieces)
ArgsFiles  == {<< Line(c_pathPrefix, <<"t">>), Line(c_argsPrefix, v) >> : v \in ArgValues}

InitResolve ==
    InitFlowEnv(ResolveEnvs, {SelfShort, SelfNested},
                {Some(f) : f \in PathFiles \cup ArgsFiles}, {<<"s">>})

\* wmain up to the resolved configuration
NextResolve == ReadShimFile

SpecResolve == InitResolve /\ [][NextResolve]_vars

-----------------------------------------------------------------------------
(* The launch with custom variables *)

\* A is not inherited
EnvNoA == (<<"B">> :> <<"w">>)

\* every sequence of at most n of the lines
RECURSIVE LinesUpTo(_, _)
LinesUpTo(lines, n) ==
    IF n = 0 THEN {<<>>}
    ELSE LET shorter == LinesUpTo(lines, n - 1)
         IN  shorter \cup {Append(f, l) : f \in shorter, l \in lines}

\* lines after the path line: A assigned x, y or nothing, B assigned a
\* reference to A, a line with an empty name, an args line
VarLines == { Line(<<"A">>, <<"x">>), Line(<<"A">>, <<"y">>), Line(<<"A">>, <<>>),
              Line(<<"B">>, <<"%", "A", "%">>), Line(<<>>, <<"z">>),
              Line(c_argsPrefix, <<"k">>) }

VarFiles == {<< Line(c_pathPrefix, <<"t">>) >> \o f : f \in LinesUpTo(VarLines, MaxVarLines)}

\* A assigned by the sidecar and referred to by a later variable and by the path
FileSelfRef     == << Line(<<"A">>, <<"x">>), Line(<<"B">>, <<"%", "A", "%">>),
                      Line(c_pathPrefix, <<"%", "A", "%">>) >>
FileSelfRefPath == << Line(c_pathPrefix, <<"%", "A", "%">>), Line(<<"A">>, <<"x">>),
                      Line(<<"B">>, <<"%", "A", "%">>) >>

SelfRefFiles == {FileSelfRef, FileSelfRefPath}

InitVars ==
    InitFlowEnv({EnvPlain, EnvNoA}, {SelfShort},
                {Some(f) : f \in VarFiles \cup SelfRefFiles}, {<<"s">>})

\* the shim's run up to the creation of the child
NextLaunch ==
    \/ ReadShimFile
    \/ AppendTail
    \/ DetermineExeType
    \/ CreateJob
    \/ SetEnvVars
    \/ CreateChild

SpecVars == InitVars /\ [][NextLaunch]_vars

-----------------------------------------------------------------------------
(* Properties of the resolver *)

\* the value written on a line Line(name, value) whose name has four characters
WrittenValue(line) == SubSeq(line, Len(c_pathPrefix) + Len(c_separator) + 1, Len(line) - 1)

HasSpace(t) == \E i \in 1..Len(t) : t[i] = " "

StartsWithQuote(t) == t # <<>> /\ t[1] = c_quote

\* C11: the resolved path is the environment-expanded path value, wrapped in
\* double quotes exactly when the expanded value holds a space and does not
\* start with a quote; otherwise it is the expanded value as it is.  The
\* decision is taken on the expanded text.
C11_PathQuotedOnExpandedText ==
    (build = "part_000" /\ pc = "tail" /\ Len(ValueOf(shimFile)) = 1) =>
        LET expanded == ExpandEnvVars(WrittenValue(ValueOf(shimFile)[1]), inherited)
            path     == ValueOf(info.path)
        IN  IF HasSpace(expanded) /\ ~StartsWithQuote(expanded)
            THEN path = <<c_quote>> \o expanded \o <<c_quote>>
            ELSE path = expanded

\* the raw value has no space, its expansion has one: the path is quoted
C11_Witness ==
    /\ pc = "tail" /\ build = "part_000" /\ inherited = EnvSpace
    /\ shimFile = Some(<< Line(c_pathPrefix, <<"%", "A", "%">>) >>)
    /\ info.path = Some(<<c_quote, "a", " ", "b", c_quote>>)

\* the raw value has a space, its expansion has none: the path is not quoted
C11_WitnessUnquoted ==
    /\ pc = "tail" /\ build = "part_000" /\ inherited = EnvSpacedName
    /\ shimFile = Some(<< Line(c_pathPrefix, <<"%", "A", " ", "A", "%">>) >>)
    /\ info.path = Some(<<"v">>)

\* the sidecar is a path line followed by an args line
IsArgsFile == HasValue(shimFile) /\ Len(ValueOf(shimFile)) = 2

\* the value written on the args line
ArgsWritten == WrittenValue(ValueOf(shimFile)[2])

\* piece stands in t at position pos (1-based)
HoldsAt(t, pos, piece) ==
    /\ pos >= 1 /\ pos + Len(piece) - 1 <= Len(t)
    /\ SubSeq(t, pos, pos + Len(piece) - 1) = piece

\* the position of the first directory token of v, 0 when it has none
FirstToken(v) ==
    IF \E k \in 1..Len(v) : HoldsAt(v, k, c_dirPlaceholder)
    THEN SetMin({k \in 1..Len(v) : HoldsAt(v, k, c_dirPlaceholder)})
    ELSE 0

\* v with its first directory token replaced by dir
FirstTokenReplaced(v, dir) ==
    IF FirstToken(v) = 0 THEN v
    ELSE SubSeq(v, 1, FirstToken(v) - 1) \o dir
           \o SubSeq(v, FirstToken(v) + Len(c_dirPlaceholder), Len(v))

\* the directory that holds the shim and its sidecar: what precedes the last
\* separator of the shim's own path
SidecarDir ==
    LET last == SetMax({i \in 1..Len(self) : self[i] \in {"\\", "/"}})
    IN  SubSeq(self, 1, last - 1)

\* v[i..j] is % NAME % with NAME set in the inherited environment
IsDefinedReference(v, i, j) ==
    /\ 1 <= i /\ i < j /\ j <= Len(v)
    /\ v[i] = c_envDelim /\ v[j] = c_envDelim
    /\ SubSeq(v, i + 1, j - 1) \in DOMAIN inherited

\* C12 (as claimed): the resolved args have the directory token and the
\* environment placeholders expanded: they are the args value with its token
\* replaced and every %NAME% of a set variable replaced by the value, the two
\* substitutions taken in either order.
C12_ArgsEnvExpanded ==
    (pc = "tail" /\ IsArgsFile) =>
        \/ ValueOf(info.args) =
              ExpandEnvVars(FirstTokenReplaced(ArgsWritten, SidecarDir), inherited)
        \/ ValueOf(info.args) =
              FirstTokenReplaced(ExpandEnvVars(ArgsWritten, inherited), SidecarDir)

\* C12 (amended): the resolved args have the directory token expanded and the
\* environment placeholders left as written: every %NAME% of the args value
\* that names a set variable and lies outside the replaced directory token
\* stands in the resolved args unchanged, at its place.
C12_ArgsEnvLeftAsWritten ==
    (pc = "tail" /\ IsArgsFile) =>
        LET v == ArgsWritten
            k == FirstToken(v)
        IN  \A i \in 1..Len(v) : \A j \in (i + 1)..Len(v) :
              (/\ IsDefinedReference(v, i, j)
               /\ (k = 0 \/ j < k \/ i >= k + Len(c_dirPlaceholder)))
              => HoldsAt(ValueOf(info.args),
                         IF k # 0 /\ k < i
                         THEN i + Len(SidecarDir) - Len(c_dirPlaceholder) ELSE i,
                         SubSeq(v, i, j))

\* %A% with A set, after a directory token: kept as written
C12_Witness ==
    /\ pc = "tail" /\ build = "part_000" /\ inherited = EnvPlain /\ self = SelfNested
    /\ IsArgsFile
    /\ ArgsWritten = c_dirPlaceholder \o <<"%", "A", "%">>
    /\ info.args = Some(<<"d", "/", "e", "%", "A", "%">>)

\* C13: the resolved args are the args value with its first directory token
\* replaced by the directory that holds the sidecar, every other character
\* (a second token included) unchanged; a value without the token is
\* unchanged.
C13_DirPlaceholderOnce ==
    (pc = "tail" /\ IsArgsFile) =>
        ValueOf(info.args) = FirstTokenReplaced(ArgsWritten, SidecarDir)

\* two tokens: the first becomes the directory, the second stays
C13_Witness ==
    /\ pc = "tail" /\ build = "part_000" /\ self = SelfNested
    /\ IsArgsFile
    /\ ArgsWritten = c_dirPlaceholder \o <<" ">> \o c_dirPlaceholder
    /\ info.args = Some(<<"d", "/", "e", " ">> \o c_dirPlaceholder)

-----------------------------------------------------------------------------
(* Properties of the custom variables *)

\* the name and the value written on a line Line(name, value) whose name
\* holds no space
NameWritten(line) ==
    SubSeq(line, 1, SetMin({i \in 1..Len(line) : line[i] = " "}) - 1)
ValueWritten(line) ==
    SubSeq(line, SetMin({i \in 1..Len(line) : line[i] = " "}) + Len(c_separator),
           Len(line) - 1)

IsVarLine(line) == NameWritten(line) \notin {<<>>, c_pathPrefix, c_argsPrefix}

\* the lines of the sidecar that assign a variable, in file order
VarLinesWritten == SelectSeq(ValueOf(shimFile), IsVarLine)

\* the last line of the sidecar that assigns name
LastAssigning(name) ==
    VarLinesWritten[SetMax({k \in 1..Len(VarLinesWritten) :
                              NameWritten(VarLinesWritten[k]) = name})]

\* what a process with environment e sees of name: its value, nothing when unset
Seen(e, name) == IF name \in DOMAIN e THEN e[name] ELSE <<>>

AssignedNames == {NameWritten(VarLinesWritten[k]) : k \in 1..Len(VarLinesWritten)}

\* C14: once the sidecar is read, envVars holds one (name, expanded value) entry per line with a
\* non-empty name other than path and args, in file order, repeated names
\* kept; all the entries are applied before the child is created, in that
\* order, so that (no call failing) the child sees of every assigned name the
\* expanded value of the last line assigning it (an empty value: the name
\* unset), and of every other name what the shim inherited.
C14_EnvVarsInFileOrder ==
    HasValue(info.path) =>
        /\ Len(info.envVars) = Len(VarLinesWritten)
        /\ \A k \in 1..Len(VarLinesWritten) :
              info.envVars[k] = << NameWritten(VarLinesWritten[k]),
                                   Expand(build, ValueWritten(VarLinesWritten[k]), inherited) >>
        /\ ChildCreated =>
              /\ putCalls = Len(VarLinesWritten)
              /\ putFailed = {} =>
                    /\ \A n \in AssignedNames :
                          Seen(childEnv, n) =
                            Expand(build, ValueWritten(LastAssigning(n)), inherited)
                    /\ \A n \in (DOMAIN inherited \cup DOMAIN childEnv) \ AssignedNames :
                          Seen(childEnv, n) = Seen(inherited, n)

\* A = x, then A = y: two entries, and the child sees y
C14_Witness ==
    /\ ChildCreated /\ putFailed = {} /\ build = "part_000"
    /\ shimFile = Some(<< Line(c_pathPrefix, <<"t">>), Line(<<"A">>, <<"x">>),
                          Line(<<"A">>, <<"y">>) >>)
    /\ info.envVars = << << <<"A">>, <<"x">> >>, << <<"A">>, <<"y">> >> >>
    /\ childEnv[<<"A">>] = <<"y">>

\* what a reference %A% becomes against the inherited environment: A's
\* inherited value, or the reference itself when A was not inherited
InheritedA ==
    IF <<"A">> \in DOMAIN inherited THEN inherited[<<"A">>] ELSE <<"%", "A", "%">>

\* the entry of envVars that assigns B
EntryOfB == CHOOSE k \in 1..Len(info.envVars) : info.envVars[k][1] = <<"B">>

\* C18: with a sidecar holding A = x, B = %A% and path = %A%, the expansion
\* of the two references never yields the x the sidecar assigns: B and the
\* path get A's inherited value, or keep %A% when A was not inherited, and
\* the child is created with A = x and B so expanded.
C18_ExpandedAgainstInherited ==
    (HasValue(info.path) /\ ValueOf(shimFile) \in SelfRefFiles) =>
        /\ info.envVars[EntryOfB][2] # <<"x">>
        /\ ValueOf(info.path) # <<"x">>
        /\ build = "part_000" =>
              /\ info.envVars[EntryOfB][2] = InheritedA
              /\ ValueOf(info.path) = InheritedA
              /\ (ChildCreated /\ putFailed = {}) =>
                    /\ childEnv[<<"A">>] = <<"x">>
                    /\ childEnv[<<"B">>] = InheritedA
                    /\ HoldsAt(childCmd, 1, InheritedA \o <<" ">>)

\* A was not inherited: the child gets A = x and B = %A%
C18_Witness ==
    /\ ChildCreated /\ putFailed = {} /\ build = "part_000" /\ inherited = EnvNoA
    /\ shimFile = Some(FileSelfRef)
    /\ childEnv[<<"A">>] = <<"x">>
    /\ childEnv[<<"B">>] = <<"%", "A", "%">>
    /\ childCmd = <<"%", "A", "%", " ">>

-----------------------------------------------------------------------------
(* Properties of the launch protocol *)

\* C1: when the target is a console application and the child was created,
\* the shim's exit code is the exit code the child reported, whatever it is.
C1_ExitCodePropagated ==
    (pc = "done" /\ ChildCreated /\ ~isWindowsApp) => exitCode = childCode

C1_Witness ==
    /\ pc = "done" /\ launch = "direct" /\ ~isWindowsApp
    /\ build = "part_000"
    /\ childCode = 2 /\ exitCode = 2

\* C2: with a windowed target and the child created, the shim never blocks
\* in the wait on the child, and it exits with code 0.
C2_WindowedNotWaited ==
    (isWindowsApp /\ ChildCreated) =>
        /\ pc # "wait"
        /\ (pc = "done" => exitCode = 0)

\* the sidecar has a line that starts with "path = "
HasPathLine(file) ==
    \E k \in 1..Len(file) :
        Substr(file[k], 0, Len(c_pathPrefix) + Len(c_separator)) = c_pathPrefix \o c_separator

NoPathInput ==
    \/ Len(self) >= MAX_PATH
    \/ ~HasValue(shimFile)
    \/ ~HasPathLine(ValueOf(shimFile))

\* C3: when the resolver yields no path (own path too long, sidecar not
\* opened, or no path line in it), the shim goes from its start straight to
\* exit code 1: no process creation call, no fallback, no child, and no
\* environment variable is set.
C3_NoPathNoLaunch ==
    (NoPathInput /\ pc # "start") =>
        /\ pc \in {"done", "killed"}
        /\ (pc = "done" => exitCode = 1)
        /\ createError = "none" /\ ~fallbackTried /\ launch = "none"
        /\ child = "none" /\ processHandle = "null"
        /\ putCalls = 0 /\ env = EnvPlain

\* the sidecar is there, holds assignments, but no path line
C3_Witness ==
    /\ pc = "done" /\ exitCode = 1
    /\ shimFile = Some(FileNoPath)
    /\ launch = "none" /\ putCalls = 0

\* C4: the fallback is tried exactly when the direct creation failed with the
\* elevation-required error; when the direct creation failed otherwise, or
\* the fallback failed, there is no process or thread handle and no child,
\* the shim never waits, and it exits with code 1.
C4_FallbackOnlyOnElevation ==
    /\ fallbackTried <=> createError = "elevation"
    /\ launch = "failed" =>
          /\ processHandle = "null" /\ threadHandle = "null" /\ child = "none"
          /\ pc \in {"check", "done", "killed"}
          /\ (pc = "done" => exitCode = 1)

\* the fallback was tried and failed
C4_Witness ==
    /\ pc = "done" /\ exitCode = 1
    /\ launch = "failed" /\ fallbackTried /\ createError = "elevation"

\* the part of the raw command line after the program name
TailAfterProgramName(raw) == SubSeq(raw, ProgramNameEnd(raw, 1, FALSE) + 1, Len(raw))

ConfiguredInfo == ResolveConfig(build, self, shimFile, EnvPlain)

\* C5: the child's command line is the resolved path, one space, the
\* configured args, then the raw command line's part after the program name,
\* character for character, however the program name is quoted.  (Checked on
\* the command lines whose quotes are all closed: the offset then lies within
\* the command line.)
C5_TailVerbatim ==
    ChildCreated =>
        childCmd = ValueOf(ConfiguredInfo.path) \o <<" ">> \o ArgsOf(ConfiguredInfo)
                     \o TailAfterProgramName(rawCmd)

\* C6: the shim does not exit before a console child it created has exited,
\* and once such a child has exited the shim exits (or is terminated).
C6_WaitsForConsoleChild ==
    /\ []((pc = "done" /\ ChildCreated /\ ~isWindowsApp) => child = "exited")
    /\ ((ChildCreated /\ ~isWindowsApp /\ child = "exited") ~> (pc \in {"done", "killed"}))

C6_Witness ==
    /\ pc = "done" /\ launch = "elevated" /\ ~isWindowsApp
    /\ child = "exited" /\ exitCode = childCode

\* C7: when no job-object call fails, a shim terminated at any point after
\* the child was created does not leave the child running.
C7_ChildDiesWithShim ==
    (pc = "killed" /\ ChildCreated /\ ~jobFailed) => child # "running"

\* one of the failures the launch recovers from has happened: a _wputenv_s
\* call, a job-object call, or the installation of the handler
RecoverableFailure == putFailed # {} \/ jobFailed \/ handlerFailed

\* C15: whatever fails among setting a variable, creating the job, assigning
\* the child to it and installing the handler, the shim gets to the creation
\* of the child, and with the child created it ends as the run without
\* failures does: with the child's exit code after the child has exited (the
\* windowed child of src/shim.cpp: with 0, without waiting).
C15_FailuresDoNotChangeOutcome ==
    /\ (HasValue(info.path) /\ pc \in {"make_handler", "check", "assign", "wait", "done"})
          => createError # "none"
    /\ (pc = "assign" /\ RecoverableFailure) => ChildCreated
    /\ (pc = "done" /\ ChildCreated /\ RecoverableFailure) =>
          IF build = "shim_cpp" /\ isWindowsApp
          THEN exitCode = 0
          ELSE child = "exited" /\ exitCode = childCode

\* every one of the four failures happened, and the child's code is returned
C15_Witness ==
    /\ pc = "done" /\ launch = "direct" /\ build = "part_000"
    /\ putFailed # {} /\ jobHandle = "null" /\ jobFailed /\ ~childInJob /\ handlerFailed
    /\ child = "exited" /\ childCode = 2 /\ exitCode = 2

\* C16: once the child is created, by either path, the handler is installed
\* (if the installation does not fail), and it reports every control signal
\* handled: a shim ended by a control signal had no handler installed.  The
\* handler is not installed before the child is created, nor when both
\* launch paths fail.
C16_HandlerAfterChildCreated ==
    /\ (ChildCreated /\ pc \in {"check", "assign", "wait", "done"} /\ ~handlerFailed)
          => handler
    /\ pc = "ctrl_exit" => ~handler
    /\ launch \in {"none", "failed"} => (~handler /\ ~handlerFailed)

\* a close signal reaches the waiting shim, whose child was started elevated
C16_Witness ==
    /\ pc = "wait" /\ launch = "elevated" /\ handler
    /\ hasConsole /\ signal = "CTRL_CLOSE_EVENT" /\ child = "running"

\* C17: the offset the tail was read from lies within the raw command line:
\* the length of the program name, plus 2 when the command line starts with
\* a quote, is at most the length of the command line.
C17_TailOffsetInRange ==
    pc = "exetype" => TailOffset(rawCmd) <= Len(rawCmd)

====
